---- MODULE Spec2Model ----
(***************************************************************************)
(* Model of the fitness tracker screen, src/app/(tabs)/index.tsx.          *)
(*                                                                         *)
(* The component holds React state (tracking, startLocation, endLocation,  *)
(* distance, stepCount, hourlyStepData) and two refs (lastStepTime,        *)
(* prevMagnitude).  startTracking and stopTracking are async handlers:     *)
(* each press creates a call that suspends at the two awaits of            *)
(* getCurrentLocation and resumes later, with the values its closure       *)
(* captured at the render in which the button was pressed.  The            *)
(* accelerometer listener is (re)subscribed by an effect keyed on          *)
(* tracking and reads the tracking value of the render that subscribed it. *)
(*                                                                         *)
(* Units: acceleration in tenths of g, time in milliseconds, angles in     *)
(* degrees (coordinates) and in quarters of pi (radians), distance in      *)
(* quarters of pi kilometres (earthRadius * c with c in quarters of pi).   *)
(***************************************************************************)
EXTENDS Integers, Sequences, FiniteSets

VARIABLES
    tracking,          \* useState(false)
    startLocation,     \* useState(null): <<>> or <<coords>>
    endLocation,       \* useState(null): <<>> or <<coords>>
    distance,          \* useState(0)
    stepCount,         \* useState(0)
    hourlyStepData,    \* useState(Array(24).fill(0))
    lastStepTime,      \* useRef(Date.now())
    prevMagnitude,     \* useRef(0)
    listenerTracking,  \* the value of tracking captured by the subscribed listener
    pending,           \* the startTracking / stopTracking calls suspended at an await
    alert,             \* the last Alert.alert shown
    clock,             \* Date.now()
    samples,           \* history: the samples detectStep has processed
    calls              \* history: how many times a handler has been invoked

vars == <<tracking, startLocation, endLocation, distance, stepCount,
          hourlyStepData, lastStepTime, prevMagnitude, listenerTracking,
          pending, alert, clock, samples, calls>>

sessionVars == <<tracking, startLocation, endLocation, distance, stepCount,
                 hourlyStepData>>

refs == <<lastStepTime, prevMagnitude>>

(***************************************************************************)
(* Program constants                                                       *)
(***************************************************************************)
threshold == 12

stepInterval == 500

earthRadius == 6371

HoursPerDay == 24

HourMs == 3600000

\* Date.now() when the component mounts
MountTime == 0

(***************************************************************************)
(* Bounds of the model                                                     *)
(***************************************************************************)
TickMs == 250

MaxTicks == 3

MaxHours == 1

MaxSamples == 3

MaxCalls == 3

(***************************************************************************)
(* Inputs                                                                  *)
(***************************************************************************)
Latitudes == {0}

Longitudes == {0, 90}

Coords == [latitude : Latitudes, longitude : Longitudes]

\* the fixes of the distance specification: the equator and both poles,
\* every quarter turn of longitude
GridLatitudes == {0 - 90, 0, 90}

GridLongitudes == {0 - 90, 0, 90, 180}

Grid == [latitude : GridLatitudes, longitude : GridLongitudes]

\* accelerometer readings {x, y, z}: one exactly at the threshold (1.2 g), one
\* above it (1.3 g)
Readings ==
    { [x |-> 0, y |-> 0, z |-> 12],
      [x |-> 5, y |-> 0, z |-> 12] }

null == <<>>

Hours == 0 .. (HoursPerDay - 1)

(***************************************************************************)
(* Pure helpers                                                            *)
(***************************************************************************)
\* Math.sqrt at the resolution of the model, rounded up: for an integer t,
\* CeilSqrt(n) > t iff sqrt(n) > t, so both comparisons of detectStep against
\* the threshold are the ones the code makes.
CeilSqrt(n) == CHOOSE r \in 0 .. n : r * r >= n /\ (r = 0 \/ (r - 1) * (r - 1) < n)

Magnitude(s) == CeilSqrt(s.x * s.x + s.y * s.y + s.z * s.z)

\* new Date().getHours(), with the local time zone at offset 0
getHours(t) == (t \div HourMs) % HoursPerDay

\* (value * Math.PI) / 180, in quarters of pi
toRad(value) == value \div 45

\* 2 * sin(k * pi/4)^2, exact
SinSq2(k) == CASE k % 4 = 0 -> 0
               [] k % 4 = 1 -> 1
               [] k % 4 = 2 -> 2
               [] k % 4 = 3 -> 1

\* cos(k * pi/4) for even k, exact
Cos(k) == CASE k % 8 = 0 -> 1
            [] k % 8 = 2 -> 0
            [] k % 8 = 4 -> 0 - 1
            [] k % 8 = 6 -> 0

\* 2 * atan2(sqrt(a), sqrt(1 - a)) in quarters of pi, for a2 = 2 * a in {0, 1, 2}
AngularDistance(a2) == CASE a2 = 0 -> 0
                         [] a2 = 1 -> 2
                         [] a2 = 2 -> 4

\* calculateDistance reading the end latitude where it means the end longitude
calculateDistanceLonTypo(start, end) ==
    LET lat1 == toRad(start.latitude)
        lon1 == toRad(start.longitude)
        lat2 == toRad(end.latitude)
        lon2 == toRad(end.latitude)
        dLat == lat2 - lat1
        dLon == lon2 - lon1
        a2   == SinSq2(dLat \div 2) + Cos(lat1) * Cos(lat2) * SinSq2(dLon \div 2)
        c    == AngularDistance(a2)
    IN  earthRadius * c

\* calculateDistance adding the latitudes where it means their difference
calculateDistanceSumLat(start, end) ==
    LET lat1 == toRad(start.latitude)
        lon1 == toRad(start.longitude)
        lat2 == toRad(end.latitude)
        lon2 == toRad(end.longitude)
        dLat == lat2 + lat1
        dLon == lon2 - lon1
        a2   == SinSq2(dLat \div 2) + Cos(lat1) * Cos(lat2) * SinSq2(dLon \div 2)
        c    == AngularDistance(a2)
    IN  earthRadius * c

\* the Haversine formula in exact arithmetic, on coordinates that are
\* multiples of 90 degrees
calculateDistance(start, end) ==
    LET lat1 == toRad(start.latitude)
        lon1 == toRad(start.longitude)
        lat2 == toRad(end.latitude)
        lon2 == toRad(end.longitude)
        dLat == lat2 - lat1
        dLon == lon2 - lon1
        a2   == SinSq2(dLat \div 2) + Cos(lat1) * Cos(lat2) * SinSq2(dLon \div 2)
        c    == AngularDistance(a2)
    IN  earthRadius * c

RECURSIVE SumTo(_, _)
SumTo(f, h) == IF h < 0 THEN 0 ELSE f[h] + SumTo(f, h - 1)

Sum(f) == SumTo(f, HoursPerDay - 1)

RemoveAt(s, i) == [k \in 1 .. (Len(s) - 1) |-> IF k < i THEN s[k] ELSE s[k + 1]]

(***************************************************************************)
(* Alerts                                                                  *)
(***************************************************************************)
NoAlert == [title |-> "", message |-> <<>>]

PermissionDeniedAlert ==
    [title |-> "Permission to access location was denied", message |-> <<>>]

TrackingStartedAlert == [title |-> "Tracking started", message |-> <<>>]

\* the message carries the number handed to toFixed(2) and the step count
TrackingStoppedAlert(calculatedDistance, steps) ==
    [title |-> "Tracking stopped", message |-> <<calculatedDistance, steps>>]

MissingStartLocationAlert ==
    [title |-> "Error", message |-> <<"Start location not set">>]

(***************************************************************************)
(* Initial state: the component has mounted and the effect has             *)
(* subscribed the listener of the first render.                           *)
(***************************************************************************)
Init ==
    /\ tracking = FALSE
    /\ startLocation = null
    /\ endLocation = null
    /\ distance = 0
    /\ stepCount = 0
    /\ hourlyStepData = [h \in Hours |-> 0]
    /\ clock = MountTime
    /\ lastStepTime = clock
    /\ prevMagnitude = 0
    /\ listenerTracking = FALSE
    /\ pending = <<>>
    /\ alert = NoAlert
    /\ samples = <<>>
    /\ calls = 0

(***************************************************************************)
(* Session handlers.  A handler's continuation is a function from the      *)
(* session record to the session record.                                   *)
(***************************************************************************)
Session ==
    [tracking |-> tracking, startLocation |-> startLocation,
     endLocation |-> endLocation, distance |-> distance,
     stepCount |-> stepCount, hourlyStepData |-> hourlyStepData,
     alert |-> alert]

Commit(s) ==
    /\ tracking' = s.tracking
    /\ startLocation' = s.startLocation
    /\ endLocation' = s.endLocation
    /\ distance' = s.distance
    /\ stepCount' = s.stepCount
    /\ hourlyStepData' = s.hourlyStepData
    /\ alert' = s.alert

\* startTracking without its `if (location)` test
startTrackingUnchecked(s, call, location) ==
    [s EXCEPT !.startLocation = location,
              !.tracking = TRUE,
              !.alert = TrackingStartedAlert]

\* startTracking that also begins the new session's step count at 0
startTrackingResetting(s, call, location) ==
    IF location # null
    THEN [s EXCEPT !.startLocation = location,
                   !.tracking = TRUE,
                   !.stepCount = 0,
                   !.alert = TrackingStartedAlert]
    ELSE s

\* startTracking without its setStartLocation
startTrackingNoLocation(s, call, location) ==
    IF location # null
    THEN [s EXCEPT !.tracking = TRUE,
                   !.alert = TrackingStartedAlert]
    ELSE s

\* startTracking after `await getCurrentLocation()` returned location
startTracking(s, call, location) ==
    IF location # null
    THEN [s EXCEPT !.startLocation = location,
                   !.tracking = TRUE,
                   !.alert = TrackingStartedAlert]
    ELSE s

\* stopTracking without its `if (startLocation)` test: a missing start
\* location ends the session with distance 0
stopTrackingUnchecked(s, call, location) ==
    IF location # null
    THEN LET calculatedDistance ==
                 IF call.startLocation # null
                 THEN calculateDistance(call.startLocation[1], location[1])
                 ELSE 0
         IN  [s EXCEPT !.endLocation = location,
                       !.tracking = FALSE,
                       !.distance = calculatedDistance,
                       !.alert = TrackingStoppedAlert(calculatedDistance, call.stepCount)]
    ELSE s

\* stopTracking after `await getCurrentLocation()` returned location;
\* startLocation and stepCount are the ones of the handler's closure
stopTracking(s, call, location) ==
    IF location # null
    THEN IF call.startLocation # null
         THEN LET calculatedDistance == calculateDistance(call.startLocation[1], location[1])
              IN  [s EXCEPT !.endLocation = location,
                            !.tracking = FALSE,
                            !.distance = calculatedDistance,
                            !.alert = TrackingStoppedAlert(calculatedDistance, call.stepCount)]
         ELSE [s EXCEPT !.endLocation = location,
                        !.alert = MissingStartLocationAlert]
    ELSE s

Resume(s, call, location) ==
    IF call.kind = "start" THEN startTracking(s, call, location)
                           ELSE stopTracking(s, call, location)

\* the calls created by invoking a handler: suspended at the first await of
\* getCurrentLocation, holding what the handler's closure reads after it
StartCall == [kind |-> "start", pc |-> "permission"]

StopCall == [kind |-> "stop", pc |-> "permission",
             startLocation |-> startLocation, stepCount |-> stepCount]

Invoke(call) ==
    /\ calls < MaxCalls
    /\ calls' = calls + 1
    /\ pending' = Append(pending, call)
    /\ UNCHANGED <<sessionVars, refs, listenerTracking, alert, clock, samples>>

\* the rendered button: Start while not tracking, Stop while tracking
PressStart == ~tracking /\ Invoke(StartCall)

PressStop == tracking /\ Invoke(StopCall)

\* the handlers invoked directly, whatever button is rendered
InvokeStart == Invoke(StartCall)

InvokeStop == Invoke(StopCall)

\* requestForegroundPermissionsAsync resolves with a status other than granted:
\* getCurrentLocation alerts and returns null
PermissionDenied(i) ==
    /\ pending[i].pc = "permission"
    /\ Commit(Resume([Session EXCEPT !.alert = PermissionDeniedAlert], pending[i], null))
    /\ pending' = RemoveAt(pending, i)
    /\ UNCHANGED <<refs, listenerTracking, clock, samples, calls>>

\* requestForegroundPermissionsAsync resolves with granted
PermissionGranted(i) ==
    /\ pending[i].pc = "permission"
    /\ pending' = [pending EXCEPT ![i].pc = "position"]
    /\ UNCHANGED <<sessionVars, refs, listenerTracking, alert, clock, samples, calls>>

\* getCurrentPositionAsync rejects: getCurrentLocation and the handler reject
PositionUnavailable(i) ==
    /\ pending[i].pc = "position"
    /\ pending' = RemoveAt(pending, i)
    /\ UNCHANGED <<sessionVars, refs, listenerTracking, alert, clock, samples, calls>>

\* getCurrentPositionAsync resolves with a fix
PositionFixed(i, coords) ==
    /\ pending[i].pc = "position"
    /\ Commit(Resume(Session, pending[i], <<coords>>))
    /\ pending' = RemoveAt(pending, i)
    /\ UNCHANGED <<refs, listenerTracking, clock, samples, calls>>

(***************************************************************************)
(* Step detection                                                          *)
(***************************************************************************)
\* detectStep without the test of the time since the last step
StepDetectedNoDebounce(magnitude, timeNow) ==
    /\ magnitude > threshold
    /\ prevMagnitude <= threshold

\* detectStep without the test of the previous magnitude
StepDetectedOnLevel(magnitude, timeNow) ==
    /\ magnitude > threshold
    /\ timeNow - lastStepTime > stepInterval

\* detectStep accepting a step exactly stepInterval after the last one
StepDetectedAtInterval(magnitude, timeNow) ==
    /\ magnitude > threshold
    /\ prevMagnitude <= threshold
    /\ timeNow - lastStepTime >= stepInterval

\* detectStep that waits for a first sample before it accepts a crossing
StepDetectedSeeded(magnitude, timeNow) ==
    /\ prevMagnitude > 0
    /\ magnitude > threshold
    /\ prevMagnitude <= threshold
    /\ timeNow - lastStepTime > stepInterval

\* the two nested conditions of detectStep
StepDetected(magnitude, timeNow) ==
    /\ magnitude > threshold
    /\ prevMagnitude <= threshold
    /\ timeNow - lastStepTime > stepInterval

\* updateHourlyStepData counting the step in the bucket after the current hour's
updateHourlyStepDataNextHour(prevData, currentHour) ==
    [prevData EXCEPT ![(currentHour + 1) % HoursPerDay] = @ + 1]

\* setHourlyStepData's updater, given the hour read from the wall clock
updateHourlyStepData(prevData, currentHour) ==
    [prevData EXCEPT ![currentHour] = @ + 1]

\* detectStep returning early, before its last line, when the debounce
\* rejects a crossing
detectStepEarlyReturn(s) ==
    LET magnitude == Magnitude(s)
        timeNow   == clock
        step      == StepDetected(magnitude, timeNow)
        rejected  == magnitude > threshold /\ prevMagnitude <= threshold /\ ~step
    IN  /\ Len(samples) < MaxSamples
        /\ IF step
           THEN /\ stepCount' = stepCount + 1
                /\ hourlyStepData' = updateHourlyStepData(hourlyStepData, getHours(clock))
                /\ lastStepTime' = timeNow
           ELSE UNCHANGED <<stepCount, hourlyStepData, lastStepTime>>
        /\ prevMagnitude' = IF rejected THEN prevMagnitude ELSE magnitude
        /\ samples' = Append(samples, [time |-> timeNow, magnitude |-> magnitude,
                                       step |-> step, tracking |-> tracking])
        /\ UNCHANGED <<tracking, startLocation, endLocation, distance, alert,
                       listenerTracking, pending, clock, calls>>

detectStep(s) ==
    LET magnitude == Magnitude(s)
        timeNow   == clock
        step      == StepDetected(magnitude, timeNow)
    IN  /\ Len(samples) < MaxSamples
        /\ IF step
           THEN /\ stepCount' = stepCount + 1
                /\ hourlyStepData' = updateHourlyStepData(hourlyStepData, getHours(clock))
                /\ lastStepTime' = timeNow
           ELSE UNCHANGED <<stepCount, hourlyStepData, lastStepTime>>
        /\ prevMagnitude' = magnitude
        /\ samples' = Append(samples, [time |-> timeNow, magnitude |-> magnitude,
                                       step |-> step, tracking |-> tracking])
        /\ UNCHANGED <<tracking, startLocation, endLocation, distance, alert,
                       listenerTracking, pending, clock, calls>>

\* the listener without its `if (tracking)` test
AccelerometerEventUnguarded(s) == detectStep(s)

\* the listener subscribed by the effect
AccelerometerEvent(s) ==
    IF listenerTracking THEN detectStep(s) ELSE UNCHANGED vars

\* the effect keyed on [tracking]: removes the old subscription and
\* subscribes a listener that closes over the current tracking
TrackingEffect ==
    /\ listenerTracking # tracking
    /\ listenerTracking' = tracking
    /\ UNCHANGED <<sessionVars, refs, alert, pending, clock, samples, calls>>

(***************************************************************************)
(* The clock: time passes within the hour, or a whole hour passes.  A      *)
(* pending effect is flushed right after the render that scheduled it,     *)
(* sooner than the clock moves on by a tick; events already queued (sensor *)
(* readings, promise resolutions, presses) may still run before it.        *)
(***************************************************************************)
Tick ==
    /\ listenerTracking = tracking
    /\ (clock % HourMs) + TickMs <= MaxTicks * TickMs
    /\ clock' = clock + TickMs
    /\ UNCHANGED <<sessionVars, refs, listenerTracking, pending, alert,
                   samples, calls>>

HourPasses ==
    /\ listenerTracking = tracking
    /\ clock + HourMs <= MaxHours * HourMs + MaxTicks * TickMs
    /\ clock' = clock + HourMs
    /\ UNCHANGED <<sessionVars, refs, listenerTracking, pending, alert,
                   samples, calls>>

Next ==
    \/ PressStart
    \/ PressStop
    \/ \E i \in 1 .. Len(pending) : PermissionDenied(i)
    \/ \E i \in 1 .. Len(pending) : PermissionGranted(i)
    \/ \E i \in 1 .. Len(pending) : PositionUnavailable(i)
    \/ \E i \in 1 .. Len(pending), coords \in Coords : PositionFixed(i, coords)
    \/ \E s \in Readings : AccelerometerEvent(s)
    \/ TrackingEffect
    \/ Tick
    \/ HourPasses

Spec == Init /\ [][Next]_vars

\* the handlers driven directly instead of through the rendered button
NextHandlers ==
    \/ InvokeStart
    \/ InvokeStop
    \/ \E i \in 1 .. Len(pending) : PermissionDenied(i)
    \/ \E i \in 1 .. Len(pending) : PermissionGranted(i)
    \/ \E i \in 1 .. Len(pending) : PositionUnavailable(i)
    \/ \E i \in 1 .. Len(pending), coords \in Coords : PositionFixed(i, coords)
    \/ \E s \in Readings : AccelerometerEvent(s)
    \/ TrackingEffect
    \/ Tick
    \/ HourPasses

SpecHandlers == Init /\ [][NextHandlers]_vars

\* sessions whose permission is granted and whose fixes range over the grid,
\* with the sensor and the clock at rest
NextDistance ==
    \/ PressStart
    \/ PressStop
    \/ \E i \in 1 .. Len(pending) : PermissionGranted(i)
    \/ \E i \in 1 .. Len(pending), coords \in Grid : PositionFixed(i, coords)
    \/ TrackingEffect

SpecDistance == Init /\ [][NextDistance]_vars

(***************************************************************************)
(* The processed samples, as the history records them                      *)
(***************************************************************************)
Above(i) == samples[i].magnitude > threshold

\* the magnitude detectStep compares sample i with: the one of the sample
\* before it, or the initial prevMagnitude
Before(i) == IF i = 1 THEN 0 ELSE samples[i - 1].magnitude

Crossing(i) == Above(i) /\ Before(i) <= threshold

Steps(S) == Cardinality({i \in S : samples[i].step})

\* when the last step before sample i was registered; the mount time if none
LastStepBefore(i) ==
    LET R == {k \in 1 .. (i - 1) : samples[k].step}
    IN  IF R = {} THEN MountTime
        ELSE samples[CHOOSE k \in R : \A m \in R : m <= k].time

\* two upward crossings less than stepInterval apart
CrossingPair(i, j) ==
    /\ i < j
    /\ Crossing(i)
    /\ Crossing(j)
    /\ samples[j].time - samples[i].time < stepInterval

\* samples i..j are a run above the threshold that begins with a crossing
Run(i, j) ==
    /\ i < j
    /\ Crossing(i)
    /\ \A k \in i .. j : Above(k)

WhileTracking(S) == \A k \in S : samples[k].tracking

(***************************************************************************)
(* Claims                                                                  *)
(***************************************************************************)

\* C1: whenever a start completes successfully from Idle, the session is in
\* Tracking with startLocation equal to the fix and stepCount equal to 0.
C1_StartResetsStepCount ==
    [][\A i \in 1 .. Len(pending), coords \in Coords :
          (PositionFixed(i, coords) /\ pending[i].kind = "start" /\ ~tracking)
              => (tracking' /\ startLocation' = <<coords>> /\ stepCount' = 0)]_vars

\* C2 as claimed: of any two upward crossings processed while tracking and
\* less than stepInterval apart, exactly one registers a step.
C2_ExactlyOnePerPair ==
    \A i, j \in DOMAIN samples :
        (CrossingPair(i, j) /\ WhileTracking({i, j})) => Steps({i, j}) = 1

\* C2 as amended: of any two upward crossings less than stepInterval apart at
\* most one registers a step, and exactly one does when the first of them comes
\* more than stepInterval after the last registered step (after mount if none).
C2_AtMostOnePerPair ==
    \A i, j \in DOMAIN samples :
        CrossingPair(i, j) =>
            /\ Steps({i, j}) <= 1
            /\ (samples[i].time - LastStepBefore(i) > stepInterval => Steps({i, j}) = 1)

C2_Witness ==
    \E i, j \in DOMAIN samples :
        CrossingPair(i, j) /\ WhileTracking({i, j}) /\ samples[i].step /\ ~samples[j].step

\* C3 as claimed: a run of two or more consecutive samples above the threshold,
\* processed while tracking and begun by a crossing, registers exactly one step.
C3_ExactlyOnePerRun ==
    \A i, j \in DOMAIN samples :
        (Run(i, j) /\ WhileTracking(i .. j)) => Steps(i .. j) = 1

\* C3 as amended: such a run registers no step after its first sample, and its
\* first sample registers one exactly when it comes more than stepInterval
\* after the last registered step (after mount if none).
C3_AtMostOnePerRun ==
    \A i, j \in DOMAIN samples :
        Run(i, j) =>
            /\ Steps((i + 1) .. j) = 0
            /\ (samples[i].step <=> samples[i].time - LastStepBefore(i) > stepInterval)

C3_Witness ==
    \E i, j \in DOMAIN samples :
        Run(i, j) /\ WhileTracking(i .. j) /\ samples[i].step
                  /\ samples[j].time - samples[i].time > stepInterval

\* C4: any two step registrations are more than stepInterval apart.
C4_StepsApart ==
    \A i, j \in DOMAIN samples :
        (i < j /\ samples[i].step /\ samples[j].step)
            => samples[j].time - samples[i].time > stepInterval

C4_Witness ==
    \E i, j \in DOMAIN samples :
        i < j /\ samples[i].step /\ samples[j].step
              /\ getHours(samples[i].time) = getHours(samples[j].time)

\* C5: a start or stop whose location fix fails (permission not granted, or
\* the position cannot be obtained) leaves tracking, startLocation,
\* endLocation, distance, stepCount and the hourly buckets unchanged.
C5_FailedFixKeepsSession ==
    [][\A i \in 1 .. Len(pending) :
          (PermissionDenied(i) \/ PositionUnavailable(i)) => UNCHANGED sessionVars]_vars

C5_Witness ==
    /\ alert = PermissionDeniedAlert
    /\ tracking
    /\ stepCount >= 1
    /\ pending = <<>>

\* C6: a stop invoked while startLocation is unset, whose fix succeeds, shows
\* the 'Start location not set' notice and leaves distance, stepCount and
\* tracking unchanged.
C6_StopWithoutStart ==
    [][\A i \in 1 .. Len(pending), coords \in Coords :
          (PositionFixed(i, coords) /\ pending[i].kind = "stop"
                                    /\ pending[i].startLocation = null)
              => (alert' = MissingStartLocationAlert
                    /\ UNCHANGED <<distance, stepCount, tracking>>)]_vars

C6_Witness ==
    /\ alert = MissingStartLocationAlert
    /\ startLocation = null
    /\ endLocation # null

\* C7: the step count a successful stop reports is the value of stepCount at
\* the moment the stop moves the session from Tracking to Idle.
C7_StopReportsCurrentSteps ==
    [][\A i \in 1 .. Len(pending), coords \in Coords :
          (PositionFixed(i, coords) /\ pending[i].kind = "stop" /\ tracking /\ ~tracking')
              => alert' = TrackingStoppedAlert(distance', stepCount)]_vars

\* C8: at most one location-fix request is outstanding at any time.
C8_SingleOutstanding == Len(pending) <= 1

\* C9: the hourly buckets count the registered steps by the hour in which each
\* was registered, nothing else changes a bucket, and the sum of the 24 buckets
\* is stepCount.
C9_BucketsMatchSteps ==
    /\ \A h \in Hours :
          hourlyStepData[h] =
              Cardinality({i \in DOMAIN samples :
                              samples[i].step /\ getHours(samples[i].time) = h})
    /\ Sum(hourlyStepData) = stepCount

C9_Witness ==
    \E h \in Hours : hourlyStepData[h] >= 2 /\ Sum(hourlyStepData) = hourlyStepData[h]

\* C10: stepCount is a non-negative integer, no transition decreases it and no
\* transition raises it by more than 1.
C10_StepCountMonotonic ==
    /\ [](stepCount \in Nat)
    /\ [][stepCount' >= stepCount /\ stepCount' <= stepCount + 1]_vars

\* a start has just succeeded (its effect has not run yet) with steps already counted
C10_Witness ==
    /\ tracking
    /\ ~listenerTracking
    /\ alert = TrackingStartedAlert
    /\ stepCount >= 1

\* C11: calculateDistance(a, b) equals calculateDistance(b, a): the distance a
\* stop computes from its start location to its fix is the distance from the
\* fix to the start location.
C11_HaversineSymmetric ==
    [][\A i \in 1 .. Len(pending), coords \in Grid :
          (PositionFixed(i, coords) /\ pending[i].kind = "stop"
                                    /\ pending[i].startLocation # null)
              => distance' = calculateDistance(coords, pending[i].startLocation[1])]_vars

\* a session has ended a quarter of a great circle from a start on the equator
C11_Witness ==
    /\ alert.title = "Tracking stopped"
    /\ endLocation # null
    /\ startLocation # null
    /\ startLocation[1].latitude = 0
    /\ endLocation[1].latitude = 90
    /\ distance = 2 * earthRadius

\* C12: calculateDistance(a, a) is 0, so a stop whose fix is the coordinate the
\* session started at sets distance to 0; and distance is never negative.
C12_HaversineZero ==
    /\ [](distance >= 0)
    /\ [][\A i \in 1 .. Len(pending), coords \in Grid :
             (PositionFixed(i, coords) /\ pending[i].kind = "stop"
                                       /\ pending[i].startLocation = <<coords>>)
                 => distance' = 0]_vars

\* a session begun at a pole has ended at the same fix
C12_Witness ==
    /\ alert = TrackingStoppedAlert(0, 0)
    /\ ~tracking
    /\ startLocation # null
    /\ endLocation = startLocation
    /\ startLocation[1].latitude = 90
    /\ startLocation[1].longitude = 180

\* the detect operator of the specification: a step is detected iff the
\* magnitude is above the threshold, the previous magnitude is not, and more
\* than the step interval has passed since the last step
SpecifiedDetect(magnitude, previousMagnitude, lastStepTimestamp, now) ==
    /\ magnitude > threshold
    /\ previousMagnitude <= threshold
    /\ now - lastStepTimestamp > stepInterval

\* C13: on every processed sample, a step is registered iff the specified
\* detect operator says so; lastStepTime becomes now on registration and is
\* unchanged otherwise; prevMagnitude becomes the sample's magnitude always.
C13_DetectStepAsSpecified ==
    [][\A s \in Readings :
          (AccelerometerEvent(s) /\ listenerTracking) =>
              LET detected == SpecifiedDetect(Magnitude(s), prevMagnitude,
                                              lastStepTime, clock)
              IN  /\ stepCount' = IF detected THEN stepCount + 1 ELSE stepCount
                  /\ lastStepTime' = IF detected THEN clock ELSE lastStepTime
                  /\ prevMagnitude' = Magnitude(s)]_vars

\* the last sample was a crossing the debounce rejected, and it is the baseline now
C13_Witness ==
    /\ samples # <<>>
    /\ Crossing(Len(samples))
    /\ ~samples[Len(samples)].step
    /\ prevMagnitude = samples[Len(samples)].magnitude
    /\ stepCount >= 1

\* C14 as claimed: after a successful stop, a sample arriving while tracking is
\* false leaves stepCount, the hourly buckets, lastStepTime and prevMagnitude
\* unchanged.
C14_NoSampleAfterStop ==
    [][\A s \in Readings :
          (AccelerometerEvent(s) /\ ~tracking /\ endLocation # null)
              => UNCHANGED <<stepCount, hourlyStepData, lastStepTime, prevMagnitude>>]_vars

\* C14 as amended: once the effect has subscribed the listener of the render
\* in which tracking is false, a sample leaves them unchanged.
C14_NoSampleAfterResubscription ==
    [][\A s \in Readings :
          (AccelerometerEvent(s) /\ ~tracking /\ ~listenerTracking)
              => UNCHANGED <<stepCount, hourlyStepData, lastStepTime, prevMagnitude>>]_vars

\* a session with a step has been stopped, the listener is the one of the
\* idle render, and the detector could still take a sample
C14_Witness ==
    /\ ~tracking
    /\ ~listenerTracking
    /\ endLocation # null
    /\ alert.title = "Tracking stopped"
    /\ stepCount >= 1
    /\ Len(samples) < MaxSamples

\* C15 as claimed: the first sample processed while tracking registers a step
\* when its magnitude exceeds the threshold.
C15_FirstSampleRegisters ==
    (samples # <<>> /\ samples[1].tracking /\ Above(1)) => samples[1].step

\* C15 as amended: the first sample processed, if its magnitude exceeds the
\* threshold, registers a step exactly when it comes more than stepInterval
\* after mount; no earlier sample at or below the threshold is needed.
C15_FirstSampleRegistersAfterInterval ==
    (samples # <<>> /\ Above(1))
        => (samples[1].step <=> samples[1].time - MountTime > stepInterval)

C15_Witness ==
    /\ samples # <<>>
    /\ samples[1].tracking
    /\ Above(1)
    /\ samples[1].step

\* C16: tracking implies that startLocation is set, startLocation is never
\* cleared once set, and a stop issued through the Stop button holds a start
\* location and never shows the 'Start location not set' notice.
C16_TrackingHasStartLocation ==
    /\ [](tracking => startLocation # null)
    /\ [](\A i \in 1 .. Len(pending) :
             pending[i].kind = "stop" => pending[i].startLocation # null)
    /\ [](alert # MissingStartLocationAlert)
    /\ [][startLocation # null => startLocation' # null]_vars

\* a stop pressed on the Stop button has ended a session
C16_Witness ==
    /\ alert.title = "Tracking stopped"
    /\ ~tracking
    /\ startLocation # null
    /\ endLocation # null

====
